---- MODULE Spec2Model ----
(***************************************************************************)
(* Credential and session authentication core of the Nuxt application:     *)
(* server/utils/customAuth.ts, the auth endpoints (signup, signin,         *)
(* signout, get-session), the requireAuth guard and the seed script.       *)
(*                                                                         *)
(* The persistent store (Prisma: users, sessions) is the shared state.     *)
(* Every handler is split at the awaits where another request can change   *)
(* a row the handler has read and will use again; requests of different    *)
(* clients interleave at those points.                                     *)
(*                                                                         *)
(* Spec is the gateway as its endpoints run it (no user row is ever        *)
(* deleted); SpecCred is the credential path alone, on a database that the *)
(* seed script populates, with the full range of request bodies.           *)
(***************************************************************************)
EXTENDS Integers, Sequences, FiniteSets, TLC

VARIABLES
    users,      \* rows of the users table
    sessions,   \* rows of the sessions table
    now,        \* the server clock (Date.now()), counted in seconds
    nextUser,   \* number of user ids handed out so far (cuid())
    nextToken,  \* number of session tokens minted so far (randomBytes)
    req,        \* per client: the request in flight and its local variables
    out,        \* the response completed by the latest step, NoOut if none
    signUpPw,   \* history: user id -> the password given at that user's signUp
    issuedTo,   \* history: session token -> user id it was issued to by signIn
    signedOut,  \* history: tokens for which a signOut has completed
    tenants,    \* rows of the tenants table
    nextTenant, \* number of tenant ids handed out so far (cuid())
    failures    \* history: length of the run of failed sign-ins that the
                \* latest steps form (0 when the latest step was anything else)

vars == <<users, sessions, now, nextUser, nextToken, req, out,
          signUpPw, issuedTo, signedOut, tenants, nextTenant, failures>>

-----------------------------------------------------------------------------
(* Bounds of the model *)

MaxUsers == 2       \* user rows ever created
MaxTokens == 2      \* session tokens ever minted
MaxFailures == 3    \* the failure history saturates here
MaxTenants == 2     \* tenant rows ever created

\* two requests can be in flight at once
Clients == {"c1", "c2"}

-----------------------------------------------------------------------------
(* Values *)

Rep(c, n) == [i \in 1..n |-> c]

Min(a, b) == IF a < b THEN a ELSE b

\* const SESSION_MAX_AGE = 30 * 24 * 60 * 60 // 30 days in seconds
SESSION_MAX_AGE == 30 * 24 * 60 * 60

\* the instants the clock is observed at: a start, a session lifetime after
\* the start, and one unit after that
Instants == {0, SESSION_MAX_AGE, SESSION_MAX_AGE + 1}

\* bcryptjs keys the cipher with the first 72 bytes of the password only
BCRYPT_MAX_INPUT == 72

\* signup.ts: password.length < 8 is rejected
MIN_PASSWORD_LENGTH == 8

\* tenant1.id of the seed: the tenant the seed users belong to
SeedTenantId == 1

NoToken == -1       \* no cookie, or the empty cookie value ""
BogusToken == 0     \* a token no session was ever created with

EmptyString == <<>>

\* e-mail addresses and passwords are sequences of characters
AliceEmail == <<"a", "@", "t", ".", "c">>     \* a@t.c
BobEmail == <<"b", "@", "t", ".", "c">>       \* b@t.c
SeedEmail == <<"s", "@", "e", ".", "c">>      \* s@e.c, an address of the seed
BadEmail == <<"a", "@", "t">>                 \* a@t, no top-level domain

PwShort == Rep("a", MIN_PASSWORD_LENGTH - 1)   \* 7 characters
PwLong == Rep("a", BCRYPT_MAX_INPUT)           \* 72 characters
PwLongX == PwLong \o <<"x">>                   \* 73 characters

\* the request bodies {email, password} sent in Spec
SignUpBodies == {<<AliceEmail, PwLong>>, <<BobEmail, PwLong>>}

SignInBodies == {<<AliceEmail, PwLong>>, <<BobEmail, PwLong>>}

\* the request bodies {email, password} sent in SpecSeed
SeedBodies == {<<AliceEmail, PwLong>>, <<SeedEmail, PwLong>>}

\* the request bodies {email, password} sent in SpecCred
SignUpBodiesCred ==
    {<<EmptyString, PwLong>>, <<AliceEmail, EmptyString>>,
     <<BadEmail, PwLong>>, <<AliceEmail, PwShort>>}
        \cup {<<AliceEmail, PwLong>>, <<AliceEmail, PwLongX>>,
              <<SeedEmail, PwLong>>}

SignInBodiesCred ==
    {<<EmptyString, PwLong>>, <<AliceEmail, EmptyString>>}
        \cup {<<AliceEmail, PwShort>>, <<AliceEmail, PwLong>>,
              <<AliceEmail, PwLongX>>, <<SeedEmail, PwLong>>}

\* the salts bcrypt draws: two, so that two digests of a password can differ
Salts == {1, 2}

\* passwordHash String? : a user row without a password credential
NoHash == [salt |-> 0, key |-> EmptyString]

NoSetCookie == [value |-> NoToken, maxAge |-> -1]
\* setCookie(event, "auth.session_token", "", { ..., maxAge: 0, path: "/" })
ClearCookie == [value |-> NoToken, maxAge |-> 0]

NoSessionBody == [id |-> 0, sessionToken |-> NoToken, expires |-> 0]
NoUserBody == [id |-> 0, email |-> EmptyString, tenantId |-> 0,
               onboardingCompleted |-> FALSE, emailVerified |-> FALSE]

\* a request and its response: the body, cookie or argument sent, the status, the
\* message of the error, the Set-Cookie header and the JSON body
NoOut == [op |-> "none", email |-> EmptyString,
          password |-> EmptyString, token |-> NoToken, userId |-> 0,
          cif |-> "", name |-> "", path |-> <<>>,
          status |-> 0, count |-> 0, tenant |-> 0, redirect |-> <<>>,
          message |-> "", setCookie |-> NoSetCookie,
          session |-> NoSessionBody, user |-> NoUserBody]

Idle == [pc |-> "idle", op |-> "none", email |-> EmptyString,
         password |-> EmptyString, token |-> NoToken, userId |-> 0,
         sessionId |-> 0, cif |-> "", name |-> ""]

-----------------------------------------------------------------------------
(* Password Hashing Service: customAuth.ts *)

\* what bcrypt's key schedule reads of the password
bcryptKey(password) ==
    SubSeq(password, 1, Min(Len(password), BCRYPT_MAX_INPUT))

\* hash(password, 10): a digest that embeds the salt drawn for this call
hashPassword(password, salt) ==
    [salt |-> salt, key |-> bcryptKey(password)]

\* compare(password, hash): recompute with the embedded salt and compare
verifyPassword(password, hash) ==
    hashPassword(password, hash.salt) = hash

-----------------------------------------------------------------------------
(* Store queries *)

\* prisma.user.findUnique({ where: { email } })
UsersByEmail(email) == {u \in users : u.email = email}

UserById(id) == {u \in users : u.id = id}

\* prisma.session.findUnique({ where: { sessionToken } })
SessionsByToken(token) == {s \in sessions : s.sessionToken = token}

\* a projection that hands out the whole row
SafeUserWholeRow(u) == u

\* the user select of signup.ts and of getSession, and userWithoutPassword
\* of signin.ts: the row without passwordHash
SafeUser(u) ==
    [id |-> u.id, email |-> u.email, tenantId |-> u.tenantId,
     onboardingCompleted |-> u.onboardingCompleted,
     emailVerified |-> u.emailVerified]

\* cookie values a client can present: none, a forged one, any issued token
CookieInputs == {NoToken, BogusToken} \cup (1..nextToken)

\* a request starts in a free slot; the slots are interchangeable, so the
\* second one is taken only while the first is busy
CanStart(c) ==
    /\ req[c].pc = "idle"
    /\ c = "c2" => req["c1"].pc # "idle"

Respond(c, o) ==
    /\ out' = o
    /\ req' = [req EXCEPT ![c] = Idle]

-----------------------------------------------------------------------------
Init ==
    /\ users = {}
    /\ sessions = {}
    /\ now = 0
    /\ nextUser = 0
    /\ nextToken = 0
    /\ req = [c \in Clients |-> Idle]
    /\ out = NoOut
    /\ signUpPw = <<>>
    /\ issuedTo = <<>>
    /\ signedOut = {}
    /\ tenants = {}
    /\ nextTenant = 0
    /\ failures = 0

\* the clock advances to a later instant
Tick ==
    /\ \E t \in Instants :
         /\ t > now
         /\ now' = t
    /\ out' = NoOut
    /\ failures' = 0
    /\ UNCHANGED <<tenants, nextTenant>>
    /\ UNCHANGED <<users, sessions, nextUser, nextToken, req,
                   signUpPw, issuedTo, signedOut>>

\* a delete of users that leaves their sessions in place
cascadeSessionsNone(goneIds) == sessions

\* Session.user onDelete: Cascade: the sessions left when users are deleted
cascadeSessions(goneIds) == {s \in sessions : s.userId \notin goneIds}

\* prisma/seed.ts main(): clears the seed rows and creates them again; the
\* seed users carry no passwordHash.  Deleting a user deletes the sessions
\* that reference it (Session.user onDelete: Cascade).
Seed ==
    /\ nextUser < MaxUsers
    /\ LET gone == UsersByEmail(SeedEmail)
           goneIds == {u.id : u \in gone}
           row == [id |-> nextUser + 1, email |-> SeedEmail,
                   passwordHash |-> NoHash, tenantId |-> SeedTenantId,
                   onboardingCompleted |-> FALSE, emailVerified |-> FALSE]
       IN /\ users' = (users \ gone) \cup {row}
          /\ sessions' = cascadeSessions(goneIds)
    /\ nextUser' = nextUser + 1
    /\ signUpPw' = Append(signUpPw, EmptyString)
    /\ out' = NoOut
    /\ failures' = 0
    /\ UNCHANGED <<tenants, nextTenant>>
    /\ UNCHANGED <<now, nextToken, req, issuedTo, signedOut>>

-----------------------------------------------------------------------------
(* POST /api/auth/signup *)

\* /^[^\s@]+@[^\s@]+\.[^\s@]+$/
emailRegexTest(s) ==
    \E i \in 1..Len(s), j \in 1..Len(s) :
        /\ i >= 2
        /\ j >= i + 2
        /\ j <= Len(s) - 1
        /\ s[i] = "@"
        /\ s[j] = "."
        /\ \A k \in (1..Len(s)) \ {i} : s[k] \notin {"@", " "}

\* signupBranch without the check of the password length
signupBranchNoLength(email, password) ==
    IF email = EmptyString \/ password = EmptyString THEN "missing"
    ELSE IF ~emailRegexTest(email) THEN "format"
    ELSE IF UsersByEmail(email) # {} THEN "exists"
    ELSE "ok"

\* the checks of the signup handler before the insert, in their order
signupBranch(email, password) ==
    IF email = EmptyString \/ password = EmptyString THEN "missing"
    ELSE IF ~emailRegexTest(email) THEN "format"
    ELSE IF Len(password) < MIN_PASSWORD_LENGTH THEN "short"
    ELSE IF UsersByEmail(email) # {} THEN "exists"
    ELSE "ok"

signupError(branch) ==
    CASE branch = "missing" ->
           [status |-> 400, message |-> "Email and password are required"]
      [] branch = "format" ->
           [status |-> 400, message |-> "Invalid email format"]
      [] branch = "short" ->
           [status |-> 400,
            message |-> "Password must be at least 8 characters long"]
      [] branch = "exists" ->
           [status |-> 400, message |-> "User with this email already exists"]

PendingCreates == Cardinality({c \in Clients : req[c].pc = "signUpCreate"})

\* validation and the existence check (prisma.user.findUnique)
SignUpCheck(c, bodies) ==
    /\ CanStart(c)
    /\ \E body \in bodies :
         LET email == body[1]
             password == body[2]
             branch == signupBranch(email, password)
             o == [NoOut EXCEPT !.op = "signUp", !.email = email,
                                !.password = password]
         IN IF branch # "ok"
            THEN Respond(c, [o EXCEPT !.status = signupError(branch).status,
                                      !.message = signupError(branch).message])
            ELSE /\ nextUser + PendingCreates < MaxUsers
                 /\ req' = [req EXCEPT ![c] =
                              [Idle EXCEPT !.pc = "signUpCreate",
                                           !.op = "signUp", !.email = email,
                                           !.password = password]]
                 /\ out' = NoOut
    /\ failures' = 0
    /\ UNCHANGED <<tenants, nextTenant>>
    /\ UNCHANGED <<users, sessions, now, nextUser, nextToken,
                   signUpPw, issuedTo, signedOut>>

\* an insert that the unique index on email never rejects
uniqueViolationNever(email) == FALSE

\* email String @unique: the insert of a second row with the address throws
uniqueViolation(email) == UsersByEmail(email) # {}

\* the row of a sign-up that is created with onboarding completed
newUserOnboarded(email, password, salt) ==
    [id |-> nextUser + 1, email |-> email,
     passwordHash |-> hashPassword(password, salt),
     tenantId |-> 0, onboardingCompleted |-> TRUE, emailVerified |-> FALSE]

\* data of prisma.user.create: tenantId is not given and stays null (0)
newUser(email, password, salt) ==
    [id |-> nextUser + 1, email |-> email,
     passwordHash |-> hashPassword(password, salt),
     tenantId |-> 0, onboardingCompleted |-> FALSE, emailVerified |-> FALSE]

\* the row that a sign-up has created under the given id
newUserAt(id, email, password, salt) ==
    [id |-> id, email |-> email,
     passwordHash |-> hashPassword(password, salt),
     tenantId |-> 0, onboardingCompleted |-> FALSE, emailVerified |-> FALSE]

\* hashPassword and prisma.user.create; the unique index on email makes the
\* insert throw, and the catch turns that into a 500
SignUpCreate(c, salts) ==
    /\ req[c].pc = "signUpCreate"
    /\ LET email == req[c].email
           password == req[c].password
           o == [NoOut EXCEPT !.op = "signUp", !.email = email,
                              !.password = password]
       IN IF uniqueViolation(email)
          THEN /\ Respond(c, [o EXCEPT !.status = 500,
                                       !.message = "Unique constraint failed"])
               /\ UNCHANGED <<users, nextUser, signUpPw>>
          ELSE \E salt \in salts :
                 LET row == newUser(email, password, salt)
                 IN /\ users' = users \cup {row}
                    /\ nextUser' = nextUser + 1
                    /\ signUpPw' = Append(signUpPw, password)
                    /\ Respond(c, [o EXCEPT !.status = 200,
                                            !.user = SafeUser(row)])
    /\ failures' = 0
    /\ UNCHANGED <<tenants, nextTenant>>
    /\ UNCHANGED <<sessions, now, nextToken, issuedTo, signedOut>>

-----------------------------------------------------------------------------
(* Session Store: customAuth.ts *)

\* randomBytes(32).toString("hex"): a value no earlier call has returned
generateSessionToken == nextToken + 1

\* createSession without the lifetime added to the clock
createSessionNoTtl(userId) ==
    [id |-> generateSessionToken, sessionToken |-> generateSessionToken,
     userId |-> userId, expires |-> now]

\* the row written by createSession(userId)
createSession(userId) ==
    [id |-> generateSessionToken, sessionToken |-> generateSessionToken,
     userId |-> userId, expires |-> now + SESSION_MAX_AGE]

-----------------------------------------------------------------------------
(* POST /api/auth/signin *)

\* signinBranch with the passwordHash check letting a row without a
\* credential through
signinBranchNoHashOk(email, password) ==
    IF email = EmptyString \/ password = EmptyString THEN "missing"
    ELSE IF UsersByEmail(email) = {} THEN "nouser"
    ELSE LET user == CHOOSE u \in UsersByEmail(email) : TRUE
         IN IF user.passwordHash = NoHash THEN "ok"
            ELSE IF ~verifyPassword(password, user.passwordHash) THEN "badpw"
            ELSE "ok"

\* the branch the signin handler takes up to and including verifyPassword
signinBranch(email, password) ==
    IF email = EmptyString \/ password = EmptyString THEN "missing"
    ELSE IF UsersByEmail(email) = {} THEN "nouser"
    ELSE LET user == CHOOSE u \in UsersByEmail(email) : TRUE
         IN IF user.passwordHash = NoHash THEN "nohash"
            ELSE IF ~verifyPassword(password, user.passwordHash) THEN "badpw"
            ELSE "ok"

\* signinError with a message of its own for an unknown address
signinErrorRevealing(branch) ==
    CASE branch = "missing" ->
           [status |-> 400, message |-> "Email and password are required"]
      [] branch = "nouser" ->
           [status |-> 404, message |-> "User not found"]
      [] branch = "nohash" ->
           [status |-> 401, message |-> "Invalid email or password"]
      [] branch = "badpw" ->
           [status |-> 401, message |-> "Invalid email or password"]

\* signinError with a lockout after two failed attempts in a row
signinErrorLockout(branch) ==
    IF branch = "missing"
    THEN [status |-> 400, message |-> "Email and password are required"]
    ELSE IF failures >= 2
    THEN [status |-> 429, message |-> "Too many attempts"]
    ELSE [status |-> 401, message |-> "Invalid email or password"]

signinError(branch) ==
    CASE branch = "missing" ->
           [status |-> 400, message |-> "Email and password are required"]
      [] branch = "nouser" ->
           [status |-> 401, message |-> "Invalid email or password"]
      [] branch = "nohash" ->
           [status |-> 401, message |-> "Invalid email or password"]
      [] branch = "badpw" ->
           [status |-> 401, message |-> "Invalid email or password"]

PendingSignIns == Cardinality({c \in Clients : req[c].pc = "signInCreate"})

\* validation, prisma.user.findUnique, the passwordHash check, verifyPassword
SignInLookup(c, bodies) ==
    /\ CanStart(c)
    /\ \E body \in bodies :
         LET email == body[1]
             password == body[2]
             branch == signinBranch(email, password)
             o == [NoOut EXCEPT !.op = "signIn", !.email = email,
                                !.password = password]
         IN IF branch # "ok"
            THEN /\ Respond(c, [o EXCEPT
                                  !.status = signinError(branch).status,
                                  !.message = signinError(branch).message])
                 /\ failures' = IF signinError(branch).status = 401
                                THEN Min(failures + 1, MaxFailures)
                                ELSE 0
            ELSE /\ nextToken + PendingSignIns < MaxTokens
                 /\ req' = [req EXCEPT ![c] =
                              [Idle EXCEPT
                                 !.pc = "signInCreate", !.op = "signIn",
                                 !.email = email, !.password = password,
                                 !.userId =
                                    (CHOOSE u \in UsersByEmail(email) : TRUE).id]]
                 /\ out' = NoOut
                 /\ failures' = 0
    /\ UNCHANGED <<tenants, nextTenant>>
    /\ UNCHANGED <<users, sessions, now, nextUser, nextToken,
                   signUpPw, issuedTo, signedOut>>

\* createSession, setCookie and the response; the insert throws when the
\* user row is gone (foreign key), and the catch turns that into a 500
SignInCreate(c) ==
    /\ req[c].pc = "signInCreate"
    /\ LET o == [NoOut EXCEPT !.op = "signIn", !.email = req[c].email,
                              !.password = req[c].password]
           row == createSession(req[c].userId)
       IN IF UserById(req[c].userId) = {}
          THEN /\ Respond(c, [o EXCEPT
                                !.status = 500,
                                !.message = "Foreign key constraint failed"])
               /\ failures' = 0
               /\ UNCHANGED <<sessions, nextToken, issuedTo>>
          ELSE /\ sessions' = sessions \cup {row}
               /\ nextToken' = nextToken + 1
               /\ issuedTo' = Append(issuedTo, req[c].userId)
               /\ failures' = 0
               /\ Respond(c, [o EXCEPT
                     !.status = 200,
                     !.setCookie = [value |-> row.sessionToken,
                                    maxAge |-> SESSION_MAX_AGE],
                     !.session = [id |-> 0,
                                  sessionToken |-> row.sessionToken,
                                  expires |-> row.expires],
                     !.user = SafeUser(CHOOSE u \in UserById(req[c].userId) :
                                          TRUE)])
    /\ UNCHANGED <<tenants, nextTenant>>
    /\ UNCHANGED <<users, now, nextUser, signUpPw, signedOut>>

-----------------------------------------------------------------------------
(* getSession of customAuth.ts, and its two callers *)

\* session.expires < new Date()
isExpired(s) == s.expires < now

\* sessionUser joining some user row instead of the row of session.userId
sessionUserAny(s) ==
    IF users = {} THEN NoUserBody
    ELSE SafeUser(CHOOSE u \in users : \A v \in users : u.id <= v.id)

\* include: { user: { select: ... } } of the findUnique of getSession
sessionUser(s) ==
    IF UserById(s.userId) = {} THEN NoUserBody
    ELSE SafeUser(CHOOSE u \in UserById(s.userId) : TRUE)

sessionBody(s) ==
    [id |-> s.id, sessionToken |-> s.sessionToken, expires |-> s.expires]

\* GET /api/auth/get-session, given what getSession returned: found is the
\* set holding the session row, empty for null
getSessionResponse(token, found) ==
    LET o == [NoOut EXCEPT !.op = "getSession", !.token = token,
                           !.status = 200]
    IN IF token = NoToken THEN o
       ELSE IF found = {} THEN [o EXCEPT !.setCookie = ClearCookie]
       ELSE LET s == CHOOSE x \in found : TRUE
            IN [o EXCEPT !.session = sessionBody(s),
                         !.user = sessionUser(s)]

\* requireAuth without the setCookie that clears the cookie
requireAuthResponseKeepCookie(token, found) ==
    LET o == [NoOut EXCEPT !.op = "requireAuth", !.token = token]
    IN IF token = NoToken
       THEN [o EXCEPT !.status = 401,
                      !.message = "Unauthorized - No session token"]
       ELSE IF found = {} \/ \A x \in found : sessionUser(x) = NoUserBody
       THEN [o EXCEPT !.status = 401,
                      !.message = "Unauthorized - Invalid or expired session"]
       ELSE LET s == CHOOSE x \in found : TRUE
            IN [o EXCEPT !.status = 200,
                         !.session = sessionBody(s),
                         !.user = sessionUser(s)]

\* requireAuth(event), given what getSession returned
requireAuthResponse(token, found) ==
    LET o == [NoOut EXCEPT !.op = "requireAuth", !.token = token]
    IN IF token = NoToken
       THEN [o EXCEPT !.status = 401,
                      !.message = "Unauthorized - No session token"]
       ELSE IF found = {} \/ \A x \in found : sessionUser(x) = NoUserBody
       THEN [o EXCEPT !.status = 401,
                      !.message = "Unauthorized - Invalid or expired session",
                      !.setCookie = ClearCookie]
       ELSE LET s == CHOOSE x \in found : TRUE
            IN [o EXCEPT !.status = 200,
                         !.session = sessionBody(s),
                         !.user = sessionUser(s)]

callerResponse(op, token, found) ==
    IF op = "getSession" THEN getSessionResponse(token, found)
    ELSE requireAuthResponse(token, found)

\* getSession threw: the catch of get-session answers 500 with the message of
\* the error; requireAuth has no catch and the error leaves the handler
callerThrow(op, token) ==
    [NoOut EXCEPT !.op = op, !.token = token, !.status = 500,
                  !.message = "Record to delete does not exist"]

\* getCookie and the findUnique of getSession; a row that is not expired, or
\* no row, ends the call; an expired row is deleted in a second statement
SessionLookup(c, op) ==
    /\ CanStart(c)
    /\ \E token \in CookieInputs :
         LET found == IF token = NoToken THEN {} ELSE SessionsByToken(token)
         IN IF \E s \in found : isExpired(s)
            THEN /\ req' = [req EXCEPT ![c] =
                              [Idle EXCEPT
                                 !.pc = "sessionDelete", !.op = op,
                                 !.token = token,
                                 !.sessionId =
                                    (CHOOSE s \in found : TRUE).id]]
                 /\ out' = NoOut
            ELSE Respond(c, callerResponse(op, token, found))
    /\ failures' = 0
    /\ UNCHANGED <<tenants, nextTenant>>
    /\ UNCHANGED <<users, sessions, now, nextUser, nextToken,
                   signUpPw, issuedTo, signedOut>>

\* a lazy delete that leaves the row in place
expireSessionNoop(id) == sessions

\* the table after prisma.session.delete({ where: { id } })
expireSession(id) == {s \in sessions : s.id # id}

\* prisma.session.delete({ where: { id: session.id } }), which throws when
\* no row has that id, and return null
SessionDelete(c) ==
    /\ req[c].pc = "sessionDelete"
    /\ LET rows == {s \in sessions : s.id = req[c].sessionId}
       IN IF rows = {}
          THEN /\ Respond(c, callerThrow(req[c].op, req[c].token))
               /\ UNCHANGED sessions
          ELSE /\ sessions' = expireSession(req[c].sessionId)
               /\ Respond(c, callerResponse(req[c].op, req[c].token, {}))
    /\ failures' = 0
    /\ UNCHANGED <<tenants, nextTenant>>
    /\ UNCHANGED <<users, now, nextUser, nextToken,
                   signUpPw, issuedTo, signedOut>>

GetSession(c) == SessionLookup(c, "getSession")

RequireAuth(c) == SessionLookup(c, "requireAuth")

-----------------------------------------------------------------------------
(* POST /api/auth/signout *)

\* a deleteSession that removes nothing
deleteSessionNoop(token) == sessions

\* a deleteSession that removes every session of the owner of the token
deleteSessionOfOwner(token) ==
    {s \in sessions :
        \A t \in SessionsByToken(token) : s.userId # t.userId}

\* prisma.session.deleteMany({ where: { sessionToken } })
deleteSession(token) == sessions \ SessionsByToken(token)

\* the message of the error a rejected database statement carries
DbErrorMessage == "Can't reach database server"

\* the catch of the signout handler without its setCookie
signOutErrorKeepCookie(token) ==
    [NoOut EXCEPT !.op = "signOut", !.token = token, !.status = 500,
                  !.message = DbErrorMessage]

\* the catch of the signout handler: clear the cookie, throw 500 with the
\* message of the error
signOutError(token) ==
    [NoOut EXCEPT !.op = "signOut", !.token = token, !.status = 500,
                  !.message = DbErrorMessage, !.setCookie = ClearCookie]

\* getCookie, deleteSession when a token is presented, setCookie, return;
\* the deleteMany is a database statement and can be rejected
SignOut(c) ==
    /\ CanStart(c)
    /\ \E token \in CookieInputs, rejected \in BOOLEAN :
         IF token # NoToken /\ rejected
         THEN /\ Respond(c, signOutError(token))
              /\ UNCHANGED <<sessions, signedOut>>
         ELSE /\ ~rejected
              /\ sessions' = IF token # NoToken THEN deleteSession(token)
                             ELSE sessions
              /\ signedOut' = signedOut \cup ({token} \cap (1..nextToken))
              /\ Respond(c, [NoOut EXCEPT
                                !.op = "signOut", !.token = token,
                                !.status = 200,
                                !.message = "Signed out successfully",
                                !.setCookie = ClearCookie])
    /\ failures' = 0
    /\ UNCHANGED <<tenants, nextTenant>>
    /\ UNCHANGED <<users, now, nextUser, nextToken, signUpPw, issuedTo>>

-----------------------------------------------------------------------------
(* Session Store: the deletes of customAuth.ts, called directly *)

\* deleteSession(sessionToken): one deleteMany, no row is not an error
DeleteSession(c) ==
    /\ CanStart(c)
    /\ \E token \in CookieInputs :
         /\ sessions' = deleteSession(token)
         /\ Respond(c, [NoOut EXCEPT !.op = "deleteSession",
                                     !.token = token, !.status = 200])
    /\ failures' = 0
    /\ UNCHANGED <<tenants, nextTenant>>
    /\ UNCHANGED <<users, now, nextUser, nextToken,
                   signUpPw, issuedTo, signedOut>>

\* a deleteUserSessions that removes one row of the user at most
deleteUserSessionsOne(userId) ==
    LET owned == {s \in sessions : s.userId = userId}
    IN IF owned = {} THEN sessions
       ELSE sessions \ {CHOOSE s \in owned : \A t \in owned : s.id <= t.id}

\* prisma.session.deleteMany({ where: { userId } })
deleteUserSessions(userId) == {s \in sessions : s.userId # userId}

\* deleteUserSessions(userId), for the id of a user or an id no user has (0)
DeleteUserSessions(c) ==
    /\ CanStart(c)
    /\ \E userId \in 0..nextUser :
         /\ sessions' = deleteUserSessions(userId)
         /\ Respond(c, [NoOut EXCEPT !.op = "deleteUserSessions",
                                     !.userId = userId, !.status = 200])
    /\ failures' = 0
    /\ UNCHANGED <<tenants, nextTenant>>
    /\ UNCHANGED <<users, now, nextUser, nextToken,
                   signUpPw, issuedTo, signedOut>>

\* a cleanup that also removes the rows that expire at this instant
cleanupExpiredInclusive == {s \in sessions : s.expires <= now}

\* the rows matched by where: { expires: { lt: new Date() } }
cleanupExpired == {s \in sessions : s.expires < now}

\* cleanupExpiredSessions(): one deleteMany, returns result.count
CleanupExpiredSessions(c) ==
    /\ CanStart(c)
    /\ sessions' = sessions \ cleanupExpired
    /\ Respond(c, [NoOut EXCEPT !.op = "cleanupExpiredSessions",
                                !.status = 200,
                                !.count = Cardinality(cleanupExpired)])
    /\ failures' = 0
    /\ UNCHANGED <<tenants, nextTenant>>
    /\ UNCHANGED <<users, now, nextUser, nextToken,
                   signUpPw, issuedTo, signedOut>>

-----------------------------------------------------------------------------
(* The handlers when a statement of the store, or the hashing, is rejected *)

\* the catch of a handler: createError 500 with error.message
caughtError(o) == [o EXCEPT !.status = 500, !.message = DbErrorMessage]

\* signup handler: the body passes the validation, then findUnique,
\* hashPassword or create is rejected; nothing has been written
SignUpFault(c) ==
    /\ CanStart(c)
    /\ \E body \in SignUpBodies :
         /\ signupBranch(body[1], body[2]) \in {"exists", "ok"}
         /\ Respond(c, caughtError([NoOut EXCEPT !.op = "signUp",
                                                 !.email = body[1],
                                                 !.password = body[2]]))
    /\ failures' = 0
    /\ UNCHANGED <<tenants, nextTenant>>
    /\ UNCHANGED <<users, sessions, now, nextUser, nextToken,
                   signUpPw, issuedTo, signedOut>>

\* signin handler: both fields are present, then findUnique, verifyPassword
\* or the create of createSession is rejected; nothing has been written
SignInFault(c) ==
    /\ CanStart(c)
    /\ \E body \in SignInBodies :
         /\ signinBranch(body[1], body[2]) # "missing"
         /\ Respond(c, caughtError([NoOut EXCEPT !.op = "signIn",
                                                 !.email = body[1],
                                                 !.password = body[2]]))
    /\ failures' = 0
    /\ UNCHANGED <<tenants, nextTenant>>
    /\ UNCHANGED <<users, sessions, now, nextUser, nextToken,
                   signUpPw, issuedTo, signedOut>>

\* get-session and requireAuth: a token is presented and the findUnique of
\* getSession is rejected; get-session catches the error and throws 500,
\* requireAuth lets the error through; neither calls setCookie
SessionLookupFault(c, op) ==
    /\ CanStart(c)
    /\ \E token \in CookieInputs \ {NoToken} :
         Respond(c, caughtError(callerThrow(op, token)))
    /\ failures' = 0
    /\ UNCHANGED <<tenants, nextTenant>>
    /\ UNCHANGED <<users, sessions, now, nextUser, nextToken,
                   signUpPw, issuedTo, signedOut>>

GetSessionFault(c) == SessionLookupFault(c, "getSession")

RequireAuthFault(c) == SessionLookupFault(c, "requireAuth")

-----------------------------------------------------------------------------
(* POST /api/onboarding/company-setup and /api/onboarding/complete *)

\* the request bodies {cif, name} of company-setup; "" is a missing field
SetupBodies == {<<"B1", "Acme">>, <<"B2", "Acme">>,
                <<"", "Acme">>, <<"B1", "">>}

\* prisma.tenant.findUnique({ where: { cif } })
TenantsByCif(cif) == {t \in tenants : t.cif = cif}

\* an insert that the unique index on cif never rejects
tenantUniqueViolationNever(cif) == FALSE

\* cif String @unique: the insert of a second tenant with the cif throws
tenantUniqueViolation(cif) == TenantsByCif(cif) # {}

\* the rows of users after an update of the row with this id
updateUser(id, field, value) ==
    {IF u.id = id THEN [u EXCEPT ![field] = value] ELSE u : u \in users}

\* the 401 that requireAuth throws, as the response of the handler that
\* called it
authError(op, token) ==
    [requireAuthResponse(token, {}) EXCEPT !.op = op]

\* the session table after the getSession of requireAuth: an expired row of
\* the token is deleted
afterRequireAuth(token) ==
    {s \in sessions : ~(s.sessionToken = token /\ isExpired(s))}

\* what the getSession of requireAuth returns for the token
authSessions(token) ==
    IF token = NoToken THEN {}
    ELSE {s \in SessionsByToken(token) :
             ~isExpired(s) /\ UserById(s.userId) # {}}

PendingTenants == Cardinality({c \in Clients : req[c].pc = "tenantCreate"})

\* company-setup up to its existence check: requireAuth, readBody, the
\* validation, prisma.tenant.findUnique
CompanySetupCheck(c) ==
    /\ CanStart(c)
    /\ \E token \in CookieInputs, body \in SetupBodies :
         LET cif == body[1]
             name == body[2]
             o == [NoOut EXCEPT !.op = "companySetup", !.token = token,
                                !.cif = cif, !.name = name]
         IN /\ sessions' = afterRequireAuth(token)
            /\ IF authSessions(token) = {}
               THEN Respond(c, [authError("companySetup", token) EXCEPT
                                  !.cif = cif, !.name = name])
               ELSE IF cif = "" \/ name = ""
               THEN Respond(c, [o EXCEPT
                                  !.status = 400,
                                  !.message = "CIF and name are required"])
               ELSE IF TenantsByCif(cif) # {}
               THEN Respond(c, [o EXCEPT
                                  !.status = 409,
                                  !.message =
                                     "Company with this CIF already exists"])
               ELSE /\ nextTenant + PendingTenants < MaxTenants
                    /\ req' = [req EXCEPT ![c] =
                                 [Idle EXCEPT
                                    !.pc = "tenantCreate",
                                    !.op = "companySetup", !.token = token,
                                    !.cif = cif, !.name = name,
                                    !.userId =
                                       (CHOOSE x \in authSessions(token) :
                                           TRUE).userId]]
                    /\ out' = NoOut
    /\ failures' = 0
    /\ UNCHANGED <<users, tenants, nextTenant>>
    /\ UNCHANGED <<now, nextUser, nextToken, signUpPw, issuedTo, signedOut>>

\* prisma.tenant.create with users: { connect: { id } }: one transaction
\* that inserts the tenant and sets the tenantId of the user; it throws on
\* the unique index of cif and when the user row is gone, and the handler
\* has no catch
TenantCreate(c) ==
    /\ req[c].pc = "tenantCreate"
    /\ LET o == [NoOut EXCEPT !.op = "companySetup", !.token = req[c].token,
                              !.cif = req[c].cif, !.name = req[c].name]
           row == [id |-> nextTenant + 1, cif |-> req[c].cif,
                   name |-> req[c].name]
       IN IF tenantUniqueViolation(req[c].cif) \/ UserById(req[c].userId) = {}
          THEN /\ Respond(c, [o EXCEPT !.status = 500,
                                       !.message = "Unique constraint failed"])
               /\ UNCHANGED <<users, tenants, nextTenant>>
          ELSE /\ tenants' = tenants \cup {row}
               /\ nextTenant' = nextTenant + 1
               /\ users' = updateUser(req[c].userId, "tenantId", row.id)
               /\ Respond(c, [o EXCEPT !.status = 200, !.tenant = row.id])
    /\ failures' = 0
    /\ UNCHANGED <<sessions, now, nextUser, nextToken,
                   signUpPw, issuedTo, signedOut>>

\* complete: requireAuth, then prisma.user.update of onboardingCompleted
Complete(c) ==
    /\ CanStart(c)
    /\ \E token \in CookieInputs :
         /\ sessions' = afterRequireAuth(token)
         /\ IF authSessions(token) = {}
            THEN /\ Respond(c, authError("complete", token))
                 /\ UNCHANGED users
            ELSE /\ users' = updateUser(
                                (CHOOSE x \in authSessions(token) : TRUE).userId,
                                "onboardingCompleted", TRUE)
                 /\ Respond(c, [NoOut EXCEPT !.op = "complete",
                                             !.token = token, !.status = 200])
    /\ failures' = 0
    /\ UNCHANGED <<tenants, nextTenant>>
    /\ UNCHANGED <<now, nextUser, nextToken, signUpPw, issuedTo, signedOut>>

-----------------------------------------------------------------------------
(* utils/onboarding.ts, composables/useAuth.ts, middleware/onboarding.ts *)

\* a value of the client that is null is the empty set, any other value v
\* is {v}

\* checkOnboardingStatus with "and" in the place of "or"
checkOnboardingStatusAnd(user) ==
    /\ \A u \in user : ~u.onboardingCompleted
    /\ \A u \in user : u.tenantId = 0

\* !user?.onboardingCompleted || !user?.tenantId
checkOnboardingStatus(user) ==
    \/ \A u \in user : ~u.onboardingCompleted
    \/ \A u \in user : u.tenantId = 0

needsOnboarding(user) == checkOnboardingStatus(user)

\* routes are paths, a path is the sequence of its segments
CompanySetupPath == <<"onboarding", "company-setup">>

Paths == {<<"dashboard">>, <<"centros", "new">>, CompanySetupPath}

\* no navigateTo: the navigation goes on to the route
NoRedirect == <<>>

\* a test that takes no path for an onboarding route
isOnboardingPathNever(path) == FALSE

\* to.path.startsWith('/onboarding')
isOnboardingPath(path) == path[1] = "onboarding"

\* useAuth(): every call makes its own refs, user = ref(null) and
\* session = ref(null)
useAuth == [user |-> {}, session |-> {}]

\* computed(() => !!session.value && !!user.value)
isAuthenticated(auth) == auth.session # {} /\ auth.user # {}

\* the refs after fetchSession(): what get-session answers for the cookie
fetchSession(token) ==
    LET found == IF token = NoToken THEN {}
                 ELSE {s \in SessionsByToken(token) : ~isExpired(s)}
        data == getSessionResponse(token, found)
    IN IF data.user # NoUserBody
       THEN [user |-> {data.user}, session |-> {data.session}]
       ELSE [user |-> {}, session |-> {}]

\* the body of the middleware, given the refs that useAuth() returned
onboardingMiddlewareWith(auth, token, path) ==
    IF ~isAuthenticated(auth) THEN NoRedirect
    ELSE LET fresh == fetchSession(token)
         IN IF isOnboardingPath(path) THEN NoRedirect
            ELSE IF needsOnboarding(fresh.user) THEN CompanySetupPath
            ELSE NoRedirect

\* defineNuxtRouteMiddleware of middleware/onboarding.ts: what it returns
onboardingMiddleware(token, path) ==
    onboardingMiddlewareWith(useAuth, token, path)

\* a navigation of the browser that holds the cookie
Navigate(c) ==
    /\ CanStart(c)
    /\ \E token \in CookieInputs, path \in Paths :
         Respond(c, [NoOut EXCEPT !.op = "navigate", !.token = token,
                                  !.path = path,
                                  !.redirect =
                                     onboardingMiddleware(token, path)])
    /\ failures' = 0
    /\ UNCHANGED <<users, sessions, tenants, nextTenant>>
    /\ UNCHANGED <<now, nextUser, nextToken, signUpPw, issuedTo, signedOut>>

-----------------------------------------------------------------------------
Next ==
    \/ Tick
    \/ \E c \in Clients : SignUpCheck(c, SignUpBodies)
    \/ \E c \in Clients : SignUpCreate(c, {1})
    \/ \E c \in Clients : SignInLookup(c, SignInBodies)
    \/ \E c \in Clients : SignInCreate(c)
    \/ \E c \in Clients : GetSession(c)
    \/ \E c \in Clients : RequireAuth(c)
    \/ \E c \in Clients : SessionDelete(c)
    \/ \E c \in Clients : SignOut(c)

Spec == Init /\ [][Next]_vars

\* the gateway with its scheduling: a handler that has started runs to its
\* end, the clock goes on, and the server keeps answering sign-up requests;
\* nothing in the server calls cleanupExpiredSessions, and no request for
\* a given session token has to arrive
SpecLive ==
    /\ Init
    /\ [][Next]_vars
    /\ WF_vars(Tick)
    /\ WF_vars(\E c \in Clients : SignUpCheck(c, SignUpBodies))
    /\ \A c \in Clients :
         /\ WF_vars(SignUpCreate(c, {1}))
         /\ WF_vars(SignInCreate(c))
         /\ WF_vars(SessionDelete(c))

NextCred ==
    \/ Seed
    \/ \E c \in Clients : SignUpCheck(c, SignUpBodiesCred)
    \/ \E c \in Clients : SignUpCreate(c, Salts)
    \/ \E c \in Clients : SignInLookup(c, SignInBodiesCred)
    \/ \E c \in Clients : SignInCreate(c)

SpecCred == Init /\ [][NextCred]_vars

\* the session store with its deletes called directly
NextStore ==
    \/ Tick
    \/ \E c \in Clients : SignUpCheck(c, SignUpBodies)
    \/ \E c \in Clients : SignUpCreate(c, {1})
    \/ \E c \in Clients : SignInLookup(c, SignInBodies)
    \/ \E c \in Clients : SignInCreate(c)
    \/ \E c \in Clients : GetSession(c)
    \/ \E c \in Clients : SessionDelete(c)
    \/ \E c \in Clients : DeleteSession(c)
    \/ \E c \in Clients : DeleteUserSessions(c)
    \/ \E c \in Clients : CleanupExpiredSessions(c)

SpecStore == Init /\ [][NextStore]_vars

\* the endpoints on a store that can reject a statement
NextFault ==
    \/ \E c \in Clients : SignUpCheck(c, SignUpBodies)
    \/ \E c \in Clients : SignUpCreate(c, {1})
    \/ \E c \in Clients : SignInLookup(c, SignInBodies)
    \/ \E c \in Clients : SignInCreate(c)
    \/ \E c \in Clients : GetSession(c)
    \/ \E c \in Clients : RequireAuth(c)
    \/ \E c \in Clients : SignUpFault(c)
    \/ \E c \in Clients : SignInFault(c)
    \/ \E c \in Clients : GetSessionFault(c)
    \/ \E c \in Clients : RequireAuthFault(c)

SpecFault == Init /\ [][NextFault]_vars

\* the gateway on a database that the seed script is run against
NextSeed ==
    \/ Seed
    \/ \E c \in Clients : SignUpCheck(c, SeedBodies)
    \/ \E c \in Clients : SignUpCreate(c, {1})
    \/ \E c \in Clients : SignInLookup(c, SeedBodies)
    \/ \E c \in Clients : SignInCreate(c)
    \/ \E c \in Clients : GetSession(c)
    \/ \E c \in Clients : RequireAuth(c)

SpecSeed == Init /\ [][NextSeed]_vars

\* the forced onboarding, from the state in which two users have signed up
\* and each has signed in once
InitOnboard ==
    /\ users = {newUserAt(1, AliceEmail, PwLong, 1),
                newUserAt(2, BobEmail, PwLong, 1)}
    /\ sessions = {[id |-> t, sessionToken |-> t, userId |-> t,
                     expires |-> SESSION_MAX_AGE] : t \in 1..2}
    /\ now = 0
    /\ nextUser = 2
    /\ nextToken = 2
    /\ req = [c \in Clients |-> Idle]
    /\ out = NoOut
    /\ signUpPw = <<PwLong, PwLong>>
    /\ issuedTo = <<1, 2>>
    /\ signedOut = {}
    /\ tenants = {}
    /\ nextTenant = 0
    /\ failures = 0

NextOnboard ==
    \/ Tick
    \/ \E c \in Clients : CompanySetupCheck(c)
    \/ \E c \in Clients : TenantCreate(c)
    \/ \E c \in Clients : Complete(c)
    \/ \E c \in Clients : Navigate(c)

SpecOnboard == InitOnboard /\ [][NextOnboard]_vars

-----------------------------------------------------------------------------
(* Properties *)

\* the steps that answer a request at once, and those that end a pending one
Immediate == req' = req

Ended(c, pc) == req[c].pc = pc /\ req'[c].pc = "idle"

\* the parts of a response a caller can see
Payload(o) ==
    [status |-> o.status, message |-> o.message, setCookie |-> o.setCookie,
     session |-> o.session, user |-> o.user]

FailedPayload ==
    [status |-> 401, message |-> "Invalid email or password",
     setCookie |-> NoSetCookie, session |-> NoSessionBody,
     user |-> NoUserBody]

\* C1: a sign-in with both fields present is answered by the same payload,
\* 401 "Invalid email or password", when no user has the address, when the
\* user has no passwordHash, and when the password does not verify
C1_SignInSecrecy ==
    [][(out'.op = "signIn" /\ Immediate
          /\ out'.email # EmptyString /\ out'.password # EmptyString
          /\ \/ UsersByEmail(out'.email) = {}
             \/ \E u \in UsersByEmail(out'.email) : u.passwordHash = NoHash
             \/ \E u \in UsersByEmail(out'.email) :
                  ~verifyPassword(out'.password, u.passwordHash))
        => Payload(out') = FailedPayload]_vars

\* C1 witness: a wrong password for a user with a password was answered 401
C1_Witness ==
    /\ out.op = "signIn"
    /\ out.status = 401
    /\ \E u \in UsersByEmail(out.email) :
         /\ u.passwordHash # NoHash
         /\ ~verifyPassword(out.password, u.passwordHash)

\* C2: a user without passwordHash owns no session, and no sign-in for the
\* address of such a user is answered with success or a cookie
C2_NoPasswordNoSignIn ==
    \A u \in users :
        u.passwordHash = NoHash =>
            /\ \A s \in sessions : s.userId # u.id
            /\ (out.op = "signIn" /\ out.email = u.email) =>
                   /\ out.status # 200
                   /\ out.setCookie = NoSetCookie
                   /\ out.session = NoSessionBody

\* C2 witness: a sign-in for a user without passwordHash was rejected
C2_Witness ==
    /\ out.op = "signIn"
    /\ out.status = 401
    /\ out.password = PwLong
    /\ \E u \in UsersByEmail(out.email) : u.passwordHash = NoHash

\* C3: a sign-in is answered with success exactly when a user has the
\* address and the password is the one given at that user's sign-up
C3_SignInIffSignUpPassword ==
    (out.op = "signIn" /\ out.status \in {200, 401}) =>
        (out.status = 200 <=>
            \E u \in UsersByEmail(out.email) :
                /\ signUpPw[u.id] # EmptyString
                /\ signUpPw[u.id] = out.password)

\* C4: the step that ends a verified sign-in succeeds, adds one row with a
\* token no row and no earlier sign-in had, owned by the verified user and
\* expiring a lifetime from now, and answers with that token as cookie and
\* as sessionToken; a second sign-in pending at that moment is left pending
C4_SignInCreatesOneSession ==
    [][\A c \in Clients :
         (Ended(c, "signInCreate") /\ out'.op = "signIn") =>
            /\ out'.status = 200
            /\ \E s \in sessions' \ sessions :
                 /\ sessions' = sessions \cup {s}
                 /\ s.userId = req[c].userId
                 /\ \E u \in UsersByEmail(req[c].email) : u.id = s.userId
                 /\ s.expires = now + SESSION_MAX_AGE
                 /\ \A t \in sessions : t.sessionToken # s.sessionToken
                                        /\ t.id # s.id
                 /\ s.sessionToken \notin 1..Len(issuedTo)
                 /\ out'.setCookie = [value |-> s.sessionToken,
                                      maxAge |-> SESSION_MAX_AGE]
                 /\ out'.session.sessionToken = s.sessionToken
                 /\ out'.session.expires = s.expires
                 /\ out'.user.id = s.userId
            /\ \A d \in Clients \ {c} : req'[d] = req[d]]_vars

\* C4 witness: a sign-in has just succeeded and left a valid session, while
\* another verified sign-in of the same user is pending
C4_Witness ==
    /\ out.op = "signIn"
    /\ out.status = 200
    /\ \E c \in Clients :
         /\ req[c].pc = "signInCreate"
         /\ req[c].userId = out.user.id
    /\ \E s \in sessions :
         /\ s.userId = out.user.id
         /\ s.sessionToken = out.session.sessionToken
         /\ ~isExpired(s)

\* C5: a sign-in answered 401 changes no row, mints no token and sets no
\* cookie, and a sign-in that repeats the credentials of a sign-in that has
\* just failed is answered by the same status and message
C5_FailedSignInFrame ==
    [][/\ (out'.op = "signIn" /\ out'.status = 401) =>
             /\ users' = users
             /\ sessions' = sessions
             /\ nextToken' = nextToken
             /\ out'.setCookie = NoSetCookie
       /\ (out.op = "signIn" /\ out.status = 401
             /\ out'.op = "signIn" /\ Immediate
             /\ out'.email = out.email /\ out'.password = out.password) =>
             /\ out'.status = out.status
             /\ out'.message = out.message]_vars

\* C5 witness: the third failed sign-in in a row
C5_Witness ==
    /\ out.op = "signIn"
    /\ out.status = 401
    /\ failures >= 3

\* C6: a session is returned by getSession only while now < expires
C6_ValidOnlyBeforeExpires ==
    (out.op \in {"getSession", "requireAuth"} /\ out.session # NoSessionBody)
        => now < out.session.expires

\* C7: the delete of a getSession that found its row expired removes the
\* row, when the row is still there, and the call returns null; a getSession
\* on a token without a row returns null and changes nothing; a token that
\* has lost its row never has one again
C7_LazyExpiry ==
    [][/\ \A c \in Clients :
            (Ended(c, "sessionDelete")
               /\ \E s \in sessions : s.id = req[c].sessionId) =>
                /\ SessionsByToken(req[c].token)' = {}
                /\ sessions' = {s \in sessions : s.id # req[c].sessionId}
                /\ \A s \in sessions \ sessions' : s.expires < now
                /\ out'.status # 500
                /\ out'.session = NoSessionBody
                /\ out'.user = NoUserBody
       /\ (out'.op \in {"getSession", "requireAuth"} /\ Immediate
             /\ out'.token # NoToken /\ SessionsByToken(out'.token) = {}) =>
                /\ sessions' = sessions
                /\ out'.status # 500
                /\ out'.session = NoSessionBody
                /\ out'.user = NoUserBody
       /\ \A t \in 1..nextToken :
            SessionsByToken(t) = {} => SessionsByToken(t)' = {}]_vars

\* C7 witness: get-session answered null for an issued token that was never
\* signed out and has no row any more
C7_Witness ==
    /\ out.op = "getSession"
    /\ out.token \in 1..nextToken
    /\ out.token \notin signedOut
    /\ SessionsByToken(out.token) = {}
    /\ out.session = NoSessionBody
    /\ out.status = 200

\* C8: requireAuth returns only the user the token was issued to by a
\* sign-in, a user created by a sign-up; it returns that user while the
\* token has a row that is not expired; and a requireAuth that presents a
\* token after a sign-out with it raises 401
C8_GuardRoundTrip ==
    [][out'.op = "requireAuth" =>
         /\ out'.status = 200 =>
              /\ out'.token \in 1..Len(issuedTo)
              /\ out'.user.id = issuedTo[out'.token]
              /\ out'.session.sessionToken = out'.token
              /\ signUpPw[out'.user.id] # EmptyString
              /\ out'.token \notin signedOut
         /\ (Immediate
               /\ \E s \in SessionsByToken(out'.token) : ~(s.expires < now))
              => out'.status = 200
         /\ (Immediate /\ out'.token \in signedOut) => out'.status = 401]_vars

\* C8 witness: requireAuth has raised 401 for a token that a sign-up and a
\* sign-in produced and a sign-out ended
C8_Witness ==
    /\ out.op = "requireAuth"
    /\ out.status = 401
    /\ out.token \in signedOut
    /\ signUpPw[issuedTo[out.token]] # EmptyString

\* what getSession returns for a token when no other request interferes
Returned(token) ==
    IF token = NoToken THEN {}
    ELSE {s \in SessionsByToken(token) : ~isExpired(s)}

\* C9: for every cookie and every store state, on what getSession returns,
\* requireAuth returns session and user exactly when get-session answers
\* with a session, the same one, and raises 401 exactly when get-session
\* answers (null, null); when a token was presented, the 401 clears the
\* cookie.  The answer of the latest requireAuth or get-session is the one
\* compared.
C9_GuardAgreesWithGetSession ==
    /\ \A token \in CookieInputs :
         LET g == getSessionResponse(token, Returned(token))
             r == requireAuthResponse(token, Returned(token))
         IN /\ r.status = 200 <=> g.session # NoSessionBody
            /\ r.status = 200 =>
                 /\ r.session = g.session
                 /\ r.user = g.user
                 /\ r.session.sessionToken = token
            /\ r.status # 200 =>
                 /\ r.status = 401
                 /\ g.session = NoSessionBody
                 /\ g.user = NoUserBody
                 /\ r.session = NoSessionBody
            /\ (r.status = 401 /\ token # NoToken) => r.setCookie = ClearCookie
            /\ (out.op = "requireAuth" /\ out.token = token
                  /\ out.status # 500) =>
                 /\ out.status = 200 <=> g.session # NoSessionBody
                 /\ Payload(out) = Payload(r)
                 /\ out.session = g.session
                 /\ out.user = g.user
                 /\ (token # NoToken /\ out.status = 401) =>
                        out.setCookie = ClearCookie
            /\ (out.op = "getSession" /\ out.token = token
                  /\ out.status # 500) =>
                 /\ out.session # NoSessionBody <=> r.status = 200
                 /\ out.session = r.session
                 /\ out.user = r.user

\* C9 witness: requireAuth has raised 401 and cleared the cookie for a token
\* whose row had expired
C9_Witness ==
    /\ out.op = "requireAuth"
    /\ out.status = 401
    /\ out.setCookie = ClearCookie
    /\ out.token \in 1..nextToken
    /\ out.token \notin signedOut

\* C10: get-session answers (null, null) without touching the cookie when
\* no token is presented; (null, null) with the cookie cleared when the
\* token has no row, or when it has deleted the expired row; and otherwise
\* the metadata of the token's row with the user that row belongs to
C10_GetSessionEndpoint ==
    [][out'.op = "getSession" =>
         /\ out'.token = NoToken =>
              /\ Payload(out') = [Payload(NoOut) EXCEPT !.status = 200]
              /\ sessions' = sessions
         /\ (Immediate /\ out'.token # NoToken
               /\ SessionsByToken(out'.token) = {}) =>
              Payload(out') = [Payload(NoOut) EXCEPT !.status = 200,
                                                     !.setCookie = ClearCookie]
         /\ \A c \in Clients :
              (Ended(c, "sessionDelete")
                 /\ \E s \in sessions : s.id = req[c].sessionId) =>
                   Payload(out') =
                      [Payload(NoOut) EXCEPT !.status = 200,
                                             !.setCookie = ClearCookie]
         /\ (Immediate /\ SessionsByToken(out'.token) # {}) =>
              \E s \in SessionsByToken(out'.token) :
                 /\ ~(s.expires < now)
                 /\ out'.status = 200
                 /\ out'.setCookie = NoSetCookie
                 /\ out'.session = [id |-> s.id,
                                    sessionToken |-> out'.token,
                                    expires |-> s.expires]
                 /\ \E u \in users :
                      /\ u.id = s.userId
                      /\ out'.user.id = u.id
                      /\ out'.user.email = u.email]_vars

\* C10 witness: get-session has answered with the session of one user while
\* another user holds a session too
C10_Witness ==
    /\ out.op = "getSession"
    /\ out.session # NoSessionBody
    /\ out.user.id = issuedTo[out.token]
    /\ \E s \in sessions : s.userId # out.user.id

\* C11: every sign-out is answered with the cookie cleared (empty value,
\* max-age 0): without a token, after the delete, and when the delete was
\* rejected
C11_SignOutClearsCookie ==
    out.op = "signOut" => out.setCookie = ClearCookie

\* C11 witness: a sign-out whose delete was rejected has been answered, and
\* the row of its token is still there
C11_Witness ==
    /\ out.op = "signOut"
    /\ out.status = 500
    /\ SessionsByToken(out.token) # {}

\* C12: every sign-out is answered with success, also when the delete of
\* the session was rejected
C12_SignOutAlwaysSucceeds ==
    out.op = "signOut" =>
        /\ out.status = 200
        /\ out.message = "Signed out successfully"

\* C13: a well-formed sign-up whose address already belongs to a user is
\* answered 409 and creates no user row
C13_SignUpConflict ==
    [][(out'.op = "signUp" /\ Immediate
          /\ signupBranch(out'.email, out'.password) = "exists")
        => /\ out'.status = 409
           /\ users' = users]_vars

\* C14: of two sign-ups with one address that have both passed the existence
\* check, the insert that comes first succeeds and adds the row, and the
\* insert that comes second is answered 409 and adds none
C14_SignUpRace ==
    [][\A c \in Clients :
         (Ended(c, "signUpCreate") /\ out'.op = "signUp") =>
            IF UsersByEmail(req[c].email) = {}
            THEN /\ out'.status = 200
                 /\ Cardinality(UsersByEmail(req[c].email)') = 1
            ELSE /\ out'.status = 409
                 /\ users' = users]_vars

\* C15: no two user rows share an email
C15_EmailUnique ==
    \A u \in users, v \in users : u.email = v.email => u = v

\* C15 witness: the insert of a sign-up that had passed the existence check
\* was rejected because a row with the address had been added meanwhile
C15_Witness ==
    /\ out.op = "signUp"
    /\ out.status = 500
    /\ \E u \in UsersByEmail(out.email) :
         /\ u.passwordHash # NoHash
         /\ signUpPw[u.id] # out.password

\* C16: a sign-up with the email or the password missing, with an email
\* that is not of the shape local@domain.tld, or with a password of fewer
\* than 8 characters is answered 400 and changes no user and no session row
C16_SignUpValidation ==
    [][(out'.op = "signUp"
          /\ \/ out'.email = EmptyString
             \/ out'.password = EmptyString
             \/ ~emailRegexTest(out'.email)
             \/ Len(out'.password) < MIN_PASSWORD_LENGTH)
        => /\ out'.status = 400
           /\ out'.user = NoUserBody
           /\ users' = users
           /\ sessions' = sessions
           /\ nextUser' = nextUser]_vars

\* C16 witness: a sign-up with a password of 7 characters was answered 400
\* on a database that holds users
C16_Witness ==
    /\ out.op = "signUp"
    /\ out.status = 400
    /\ out.password = PwShort
    /\ emailRegexTest(out.email)
    /\ users # {}

\* C17: a sign-up answered with success has added exactly one user row,
\* with the address of the request, onboardingCompleted = false,
\* emailVerified = false and no tenant; it has changed no session row,
\* minted no token and set no cookie
C17_SignUpFrame ==
    [][(out'.op = "signUp" /\ out'.status = 200) =>
         /\ \E u \in users' \ users :
              /\ users' = users \cup {u}
              /\ u.email = out'.email
              /\ u.onboardingCompleted = FALSE
              /\ u.emailVerified = FALSE
              /\ u.tenantId = 0
              /\ out'.user.id = u.id
              /\ \A v \in users : v.id # u.id
         /\ sessions' = sessions
         /\ nextToken' = nextToken
         /\ out'.setCookie = NoSetCookie
         /\ out'.session = NoSessionBody]_vars

\* C17 witness: a sign-up has succeeded while another user holds a session,
\* and the new user holds none
C17_Witness ==
    /\ out.op = "signUp"
    /\ out.status = 200
    /\ sessions # {}
    /\ \A s \in sessions : s.userId # out.user.id
    /\ \E u \in users : u.id = out.user.id /\ u.tenantId = 0

\* C18: the user in a response of signUp, signIn, get-session or
\* requireAuth has no passwordHash field, and neither has the response
C18_NoPasswordHashInResponse ==
    out.op \in {"signUp", "signIn", "getSession", "requireAuth"} =>
        /\ "passwordHash" \notin DOMAIN out.user
        /\ "passwordHash" \notin DOMAIN out.session
        /\ "passwordHash" \notin DOMAIN out

\* C18 witness: requireAuth has returned a user whose row holds a password
\* hash
C18_Witness ==
    /\ out.op = "requireAuth"
    /\ out.status = 200
    /\ \E u \in users :
         /\ u.id = out.user.id
         /\ u.passwordHash # NoHash
         /\ SafeUser(u) = out.user

\* C19: deleteSession(token) removes the rows with that token and no other
\* row, raises no error, and changes nothing when the token has no row, as
\* it has none after a first call
C19_DeleteSession ==
    [][out'.op = "deleteSession" =>
         /\ out'.status = 200
         /\ sessions' = {s \in sessions : s.sessionToken # out'.token}
         /\ SessionsByToken(out'.token) = {} => sessions' = sessions
         /\ \E t \in CookieInputs :
              /\ t = out'.token
              /\ SessionsByToken(t)' = {}
              /\ deleteSession(t)' = sessions'
         /\ users' = users]_vars

\* C19 witness: deleteSession was called on an issued token that had no row
\* any more, while another session exists
C19_Witness ==
    /\ out.op = "deleteSession"
    /\ out.token \in 1..nextToken
    /\ SessionsByToken(out.token) = {}
    /\ sessions # {}

\* C20: deleteUserSessions(userId) removes the rows of that user and no
\* other row, so that no token issued to the user has a row or is returned
\* by getSession; a token without a row never has one again, and a lookup
\* of it answers null
C20_DeleteUserSessions ==
    [][/\ out'.op = "deleteUserSessions" =>
            /\ out'.status = 200
            /\ sessions' = {s \in sessions : s.userId # out'.userId}
            /\ \A t \in 1..nextToken :
                 issuedTo[t] = out'.userId =>
                    /\ SessionsByToken(t)' = {}
                    /\ Returned(t)' = {}
            /\ users' = users
       /\ \A t \in 1..nextToken :
            SessionsByToken(t) = {} =>
               /\ SessionsByToken(t)' = {}
               /\ (out'.op = "getSession" /\ out'.token = t) =>
                      out'.session = NoSessionBody]_vars

\* C20 witness: deleteUserSessions has removed the session of a user, a
\* session that had not expired, and the session of another user is left
C20_Witness ==
    /\ out.op = "deleteUserSessions"
    /\ \E t \in 1..nextToken :
         /\ issuedTo[t] = out.userId
         /\ SessionsByToken(t) = {}
         /\ now < SESSION_MAX_AGE
    /\ \E s \in sessions : s.userId # out.userId

\* C21: cleanupExpiredSessions() removes exactly the rows with
\* expires < now, returns how many it removed, and leaves no row that a
\* call repeated at once would remove
C21_CleanupExpired ==
    [][out'.op = "cleanupExpiredSessions" =>
         /\ out'.status = 200
         /\ sessions' = {s \in sessions : ~(s.expires < now)}
         /\ out'.count = Cardinality(sessions \ sessions')
         /\ now' = now
         /\ {s \in sessions' : s.expires < now'} = {}
         /\ cleanupExpired' = {}
         /\ users' = users]_vars

\* C21 witness: a cleanup has removed one row and left another row, which
\* is not expired; the call before it is the state it now leaves
C21_Witness ==
    /\ out.op = "cleanupExpiredSessions"
    /\ out.count = 1
    /\ \E s \in sessions : now <= s.expires
    /\ \E t \in 1..nextToken : SessionsByToken(t) = {}

\* C22: no getSession raises an error, whatever other getSession,
\* deleteSession or cleanupExpiredSessions runs between its lookup and its
\* lazy delete; a getSession for an expired token returns null
C22_GetSessionRace ==
    out.op = "getSession" =>
        /\ out.status # 500
        /\ (\A s \in SessionsByToken(out.token) : isExpired(s)) =>
               out.session = NoSessionBody

\* C23: a requireAuth or get-session that was given a token and ends
\* without a session clears the cookie, also when the lookup of the
\* session raised an error
C23_CookieClearedOnError ==
    (out.op \in {"getSession", "requireAuth"}
       /\ out.token # NoToken
       /\ out.session = NoSessionBody)
    => out.setCookie = ClearCookie

\* the message a handler uses when the error has none
GenericMessage(op) ==
    CASE op = "signUp" -> "Failed to create user"
      [] op = "signIn" -> "Failed to sign in"
      [] op = "getSession" -> "Failed to get session"

\* C24: a 500 of signUp, signIn or get-session carries the generic message
\* of the endpoint, not the message of the error that caused it
C24_GenericInternalError ==
    (out.op \in {"signUp", "signIn", "getSession"} /\ out.status = 500)
    => /\ out.message = GenericMessage(out.op)
       /\ out.message # DbErrorMessage

\* C25: get-session and requireAuth return a session only with the user
\* who owns it, a user who exists; no session row is left without its user;
\* and a token issued to a user whose row has been deleted has no row and
\* is answered (null, null) by get-session and 401 by requireAuth
C25_NoSessionOfDeletedUser ==
    /\ (out.op \in {"getSession", "requireAuth"}
          /\ out.session # NoSessionBody) =>
            /\ out.user # NoUserBody
            /\ \E u \in users : u.id = out.user.id
            /\ out.user.id = issuedTo[out.token]
    /\ \A s \in sessions : UserById(s.userId) # {}
    /\ \A t \in 1..nextToken :
         UserById(issuedTo[t]) = {} =>
            /\ SessionsByToken(t) = {}
            /\ (out.op \in {"getSession", "requireAuth"} /\ out.token = t) =>
                   /\ out.session = NoSessionBody
                   /\ out.user = NoUserBody
                   /\ out.op = "requireAuth" => out.status = 401

\* C25 witness: requireAuth has raised 401 for a token that was issued to a
\* user whose row has since been deleted
C25_Witness ==
    /\ out.op = "requireAuth"
    /\ out.status = 401
    /\ out.token \in 1..nextToken
    /\ UserById(issuedTo[out.token]) = {}

\* C26: the tenantId of a user, once set, and onboardingCompleted, once
\* true, are not changed by any later step
C26_OnboardingSetOnce ==
    [][\A u \in users, v \in users' :
         v.id = u.id =>
            /\ u.tenantId # 0 => v.tenantId = u.tenantId
            /\ u.onboardingCompleted => v.onboardingCompleted]_vars

\* C27: a navigation to a route outside /onboarding, with the cookie of a
\* valid session whose user needs onboarding, is redirected to
\* /onboarding/company-setup
C27_ForcedOnboardingRedirect ==
    (out.op = "navigate"
       /\ ~isOnboardingPath(out.path)
       /\ \E s \in Returned(out.token) : needsOnboarding({sessionUser(s)}))
    => out.redirect = CompanySetupPath

\* C28: needsOnboarding(user) is true exactly when the user is null,
\* onboardingCompleted is not true, or tenantId is not set
C28_NeedsOnboarding ==
    \A user \in {{}} \cup {{SafeUser(u)} : u \in users} :
        needsOnboarding(user) <=>
            \/ user = {}
            \/ \E u \in user : u.onboardingCompleted # TRUE
            \/ \E u \in user : u.tenantId = 0

\* C28 witness: one user has completed the onboarding and has a tenant,
\* and another has completed it without a tenant
C28_Witness ==
    /\ \E u \in users : ~needsOnboarding({SafeUser(u)})
    /\ \E u \in users : u.onboardingCompleted /\ u.tenantId = 0
    /\ out.op = "complete"

\* the token has a session that is valid, now < expires
HasValidSession(token) ==
    \E s \in SessionsByToken(token) : now < s.expires

\* C29: company-setup goes on to create a tenant only for the owner of a
\* valid session of the token, and changes that user only; complete
\* changes only the owner of a valid session of the token; a request
\* whose token has no valid session is answered 401 and changes no user
\* and no tenant
C29_OnboardingNeedsSession ==
    [][/\ \A c \in Clients :
            (req[c].pc = "idle" /\ req'[c].pc = "tenantCreate") =>
               \E s \in SessionsByToken(req'[c].token) :
                  /\ now < s.expires
                  /\ s.userId = req'[c].userId
       /\ \A c \in Clients :
            Ended(c, "tenantCreate") =>
               \A u \in users : u.id # req[c].userId => u \in users'
       /\ (out'.op = "complete" /\ users' # users) =>
            \E s \in SessionsByToken(out'.token) :
               /\ now < s.expires
               /\ \A u \in users : u.id # s.userId => u \in users'
       /\ (out'.op \in {"companySetup", "complete"} /\ Immediate
             /\ ~HasValidSession(out'.token)) =>
               /\ out'.status = 401
               /\ users' = users
               /\ tenants' = tenants]_vars

\* C30: company-setup by a signed-in caller is answered 400 when cif or
\* name is missing and 409 when a tenant has the cif, and then creates no
\* tenant and changes no user; no two tenants share a cif
C30_CompanySetupCif ==
    [][/\ (out'.op = "companySetup" /\ Immediate
             /\ authSessions(out'.token) # {}
             /\ (out'.cif = "" \/ out'.name = "")) =>
               /\ out'.status = 400
               /\ tenants' = tenants
               /\ users' = users
       /\ (out'.op = "companySetup" /\ Immediate
             /\ authSessions(out'.token) # {}
             /\ out'.cif # "" /\ out'.name # ""
             /\ TenantsByCif(out'.cif) # {}) =>
               /\ out'.status = 409
               /\ tenants' = tenants
               /\ users' = users
       /\ \A t1 \in tenants', t2 \in tenants' :
            t1.cif = t2.cif => t1 = t2]_vars

\* C30 witness: a company-setup with the cif of an existing tenant was
\* answered 409, and its caller has no tenant
C30_Witness ==
    /\ out.op = "companySetup"
    /\ out.status = 409
    /\ TenantsByCif(out.cif) # {}
    /\ \E u \in UserById(issuedTo[out.token]) : u.tenantId = 0

\* C31: the onboarding middleware redirects no navigation to a path under
\* /onboarding, whatever the refs of useAuth hold, and redirects only to
\* such a path: the navigation that a redirect starts is not redirected
\* again
C31_NoRedirectLoop ==
    /\ (out.op = "navigate" /\ isOnboardingPath(out.path)) =>
           out.redirect = NoRedirect
    /\ (out.op = "navigate" /\ out.redirect # NoRedirect) =>
           /\ out.redirect[1] = "onboarding"
           /\ onboardingMiddleware(out.token, out.redirect) = NoRedirect
    /\ \A token \in CookieInputs, path \in Paths :
         \A auth \in {useAuth, fetchSession(token)} :
            LET to == onboardingMiddlewareWith(auth, token, path)
            IN /\ path[1] = "onboarding" => to = NoRedirect
               /\ to # NoRedirect =>
                    /\ to[1] = "onboarding"
                    /\ onboardingMiddlewareWith(auth, token, to) = NoRedirect

\* C31 witness: a navigation to /onboarding/company-setup with the cookie
\* of a valid session, whose user needs onboarding, was not redirected
C31_Witness ==
    /\ out.op = "navigate"
    /\ out.path = CompanySetupPath
    /\ out.redirect = NoRedirect
    /\ isAuthenticated(fetchSession(out.token))
    /\ needsOnboarding(fetchSession(out.token).user)
    /\ onboardingMiddlewareWith(fetchSession(out.token), out.token,
                                <<"dashboard">>) = CompanySetupPath

\* C32: a session row whose expiry has passed is eventually removed, with
\* no request that looks its token up
C32_ExpiredEventuallyRemoved ==
    \A t \in 1..MaxTokens :
        (\E s \in SessionsByToken(t) : isExpired(s))
            ~> (SessionsByToken(t) = {})

\* C33: a user with onboardingCompleted = true has a tenantId
C33_CompletedHasTenant ==
    \A u \in users : u.onboardingCompleted => u.tenantId # 0

====
